---------------------------- MODULE Spec2Model ----------------------------
(***************************************************************************)
(* A model of googlecl/service.py: the paginated feed reader               *)
(* (BaseServiceCL.get_entries), the choice of one entry                    *)
(* (BaseServiceCL.get_single_entry), the confirmed deletion of entries     *)
(* (BaseServiceCL.delete), the max-results URI helper (set_max_results),   *)
(* the requirement container (Task.requires) and the tag-string parser     *)
(* (generate_tag_sets).                                                    *)
(*                                                                         *)
(* Python strings are sequences of one-character strings.  Python's None   *)
(* is a tagged value wherever it can meet a value of another type.         *)
(***************************************************************************)
EXTENDS Integers, Sequences, FiniteSets, TLC

VARIABLES
    pc,               \* position of the call being modelled
    \* ---- generate_tag_sets
    tags,             \* the argument string
    tag_result,       \* what the call produced
    \* ---- set_max_results
    uri,              \* the argument uri
    max,              \* the argument max
    uri_result,       \* the returned string
    \* ---- Task.requires
    required,         \* Task.required
    options,          \* the options argument
    attribute,        \* the attribute argument
    requires_result,  \* the returned value
    \* ---- BaseServiceCL.get_entries
    cap_results,      \* self.cap_results
    title,            \* the title argument (<<>>: None or '', both falsy)
    use_regex,        \* self.use_regex
    feed,             \* local variable feed
    all_entries,      \* local variable all_entries
    warned,           \* a LeftoverData warning was issued
    printed,          \* 'Failed to get entries' was printed
    outcome,          \* how the call ended
    result,           \* the returned list
    fetched,          \* locators requested from the server, in order
    served,           \* the server's responses, in order
    \* ---- BaseServiceCL.get_single_entry
    sel_arg,          \* the argument uri_or_entry_list
    sel_entries,      \* local variable entries
    listed,           \* the numbers printed in front of the entries
    selection,        \* local variable selection
    answer,           \* what raw_input returned last
    prompts,          \* how often raw_input was called
    sel_outcome,      \* how the call ended
    sel_result,       \* the returned value
    \* ---- BaseServiceCL.delete
    del_entries,      \* the argument entries
    prompt_for_delete,\* self.prompt_for_delete
    delete_default,   \* the argument delete_default
    del_index,        \* how many items the loop has gone through
    del_answers,      \* what raw_input returned for each item so far
    del_requests,     \* the Delete requests made, in order
    del_printed       \* the items whose failure was printed

tagVars == <<tags, tag_result>>
uriVars == <<uri, max, uri_result>>
taskVars == <<required, options, attribute, requires_result>>
feedVars == <<cap_results, title, use_regex, feed, all_entries, warned,
              printed, outcome, result, fetched, served>>
selVars == <<sel_arg, sel_entries, listed, selection, answer, prompts,
             sel_outcome, sel_result>>
delVars == <<del_entries, prompt_for_delete, delete_default, del_index,
             del_answers, del_requests, del_printed>>
vars == <<pc, tagVars, uriVars, taskVars, feedVars, selVars, delVars>>

-----------------------------------------------------------------------------
(* Bounds of the model. *)

MaxTagLen == 4
MaxUriPart == 2
MaxRequired == 3
MaxPages == 3
MaxPageLen == 2
MaxListLen == 3
MaxAnswerLen == 2
MaxPrompts == 3
MaxDeleteLen == 3

-----------------------------------------------------------------------------
(* Strings. *)

Range(s) == {s[i] : i \in 1..Len(s)}

SeqsUpTo(S, n) == UNION {[1..k -> S] : k \in 0..n}

\* s[i:] of Python, i counted from 0
From(s, i) == SubSeq(s, i + 1, Len(s))

\* s[:i] of Python
Upto(s, i) == SubSeq(s, 1, IF i < Len(s) THEN i ELSE Len(s))

\* str.find(sub): the lowest 0-based index where sub occurs, -1 if none
find(s, sub) ==
    LET hits == {i \in 0..(Len(s) - Len(sub)) :
                    SubSeq(s, i + 1, i + Len(sub)) = sub}
    IN  IF hits = {} THEN -1
        ELSE CHOOSE i \in hits : \A j \in hits : i <= j

\* str.replace(old, new): non-overlapping occurrences, left to right
RECURSIVE replace(_, _, _)
replace(s, old, new) ==
    IF Len(s) < Len(old) THEN s
    ELSE IF SubSeq(s, 1, Len(old)) = old
         THEN new \o replace(From(s, Len(old)), old, new)
         ELSE <<s[1]>> \o replace(Tail(s), old, new)

\* str.split(sep) for a one-character separator: '' splits to ['']
RECURSIVE split(_, _)
split(s, sep) ==
    LET i == find(s, <<sep>>)
    IN  IF i = -1 THEN <<s>>
        ELSE <<Upto(s, i)>> \o split(From(s, i + 1), sep)

\* str(n) for a natural number
RECURSIVE str(_)
str(n) ==
    LET digit == <<"0", "1", "2", "3", "4", "5", "6", "7", "8", "9">>
    IN  IF n < 10 THEN <<digit[n + 1]>>
        ELSE str(n \div 10) \o <<digit[(n % 10) + 1]>>

-----------------------------------------------------------------------------
(* generate_tag_sets *)

TagAlphabet == {"a", "b", "-", ",", " ", "\\"}

\* the examples of the docstring and of the specification
TagExamples ==
    { <<"t","a","g","1",","," ","t","a","g","2",","," ","-","t","a","g","3">>,
      <<"-","t","a","g","1",","," ","t","a","g","4",","," ","\\","-","t","a","g","5">>,
      <<"-","-",","," ","t","a","g","6">>,
      <<"\\","-","t","a","g","5">> }

\* a tag that follows a comma and two spaces
TagSpaced == { <<"a", ",", " ", " ", "b">> }

TagInputs == SeqsUpTo(TagAlphabet, MaxTagLen) \cup TagExamples \cup TagSpaced

\* tagset = set(tags.split(',')) after tags.replace(', ', ',')
tagset_of(s) == Range(split(replace(s, <<",", " ">>, <<",">>), ","))

\* set(tag[1:] for tag in tagset if tag[0] == '-'); tag[0] of '' raises
remove_set_of(tagset) == {From(tag, 1) : tag \in {t \in tagset : t[1] = "-"}}

\* a variant: looks for the marker itself among the removals
replace_tags_marker(remove_set) == <<"-", "-">> \in remove_set

\* '-' in remove_set
replace_tags_of(remove_set) == <<"-">> \in remove_set

\* a variant: compares the first two characters with the escape
is_escaped_two(tag) == Upto(tag, 2) = <<"\\", "-">>

\* tag[:1] == '\-' compares a string of at most one character with the
\* two characters backslash, hyphen
is_escaped(tag) == Upto(tag, 1) = <<"\\", "-">>

add_set_of(tagset, remove_set) ==
    IF Cardinality(remove_set) # Cardinality(tagset)
    THEN {From(tag, 1) : tag \in {t \in tagset : is_escaped(t)}}
         \cup {tag \in tagset : ~is_escaped(tag) /\ tag[1] # "-"}
    ELSE {}

generate_tag_sets(s) ==
    LET tagset == tagset_of(s)
    IN  IF <<>> \in tagset
        THEN [raised |-> "IndexError", remove_set |-> {}, add_set |-> {},
              replace_tags |-> FALSE]
        ELSE LET remove_set == remove_set_of(tagset)
             IN  [raised |-> "", remove_set |-> remove_set,
                  add_set |-> add_set_of(tagset, remove_set),
                  replace_tags |-> replace_tags_of(remove_set)]

NoTagResult == [raised |-> "", remove_set |-> {}, add_set |-> {},
                replace_tags |-> FALSE]


IdleTags == tags = <<>> /\ tag_result = NoTagResult

-----------------------------------------------------------------------------
(* set_max_results *)

UriAlphabet == {"x", "?", "&", "="}

\* the parameter name the code searches for
ParamName == <<"m", "a", "x", "-", "r", "e", "s", "u", "l", "t", "s">>

\* what a uri may carry in its middle: nothing, the parameter name, the
\* parameter with a value, or a name one character short of it
UriMiddles ==
    { <<>>, ParamName, ParamName \o <<"=", "1", "0">>, Upto(ParamName, 10) }

UriInputs ==
    { pre \o mid \o post :
        pre \in SeqsUpTo(UriAlphabet, MaxUriPart),
        mid \in UriMiddles,
        post \in SeqsUpTo(UriAlphabet, MaxUriPart) }

\* 1: is_token_valid; 50: a user's max_results; 10000: LARGE_MAX_RESULTS
MaxInputs == {1, 50, 10000}

\* a variant: looks for the parameter as a key, 'max-results='
set_max_results_keyed(u, m) ==
    LET max_str == str(m)
    IN  IF find(u, <<"?">>) = -1
        THEN u \o <<"?">> \o ParamName \o <<"=">> \o max_str
        ELSE IF find(u, ParamName \o <<"=">>) = -1
             THEN u \o <<"&">> \o ParamName \o <<"=">> \o max_str
             ELSE u

set_max_results(u, m) ==
    LET max_str == str(m)
    IN  IF find(u, <<"?">>) = -1
        THEN u \o <<"?">> \o ParamName \o <<"=">> \o max_str
        ELSE IF find(u, ParamName) = -1
             THEN u \o <<"&">> \o ParamName \o <<"=">> \o max_str
             ELSE u

IdleUri == uri = <<>> /\ max = 0 /\ uri_result = <<>>

-----------------------------------------------------------------------------
(* Task.requires *)

Attrs == {"a", "b", "c"}

\* Python's None among option values
PyNone == "<None>"

\* values an option may hold: unset, the empty string, a supplied string
OptionValues == {PyNone, "", "x"}

\* bool(v) for an option value
truthy(v) == v \notin {PyNone, ""}

\* a term of Task.required: an attribute name, or a list of names
Bare(a) == [is_list |-> FALSE, name |-> a, items |-> <<>>]
AnyOf(l) == [is_list |-> TRUE, name |-> "", items |-> l]

Groups ==
    ({ <<x, y>> : x \in Attrs, y \in Attrs } \ { <<x, x>> : x \in Attrs })
    \cup { <<"a", "b", "c">> }

Terms == {Bare(a) : a \in Attrs} \cup {AnyOf(l) : l \in Groups}

RequiredLists == SeqsUpTo(Terms, MaxRequired)

\* the options argument: None, or an object holding a value for every name
NoOptions == [supplied |-> FALSE, values |-> [a \in Attrs |-> PyNone]]
OptionObjects ==
    { [supplied |-> TRUE, values |-> v] : v \in [Attrs -> OptionValues] }

\* the values requires returns: True/False, a list of sublists, or None
\* (the function falls off its end)
PyBool(b) == [type |-> "bool", bool |-> b, list |-> <<>>]
PyList(l) == [type |-> "list", bool |-> FALSE, list |-> l]
PyNoneResult == [type |-> "None", bool |-> FALSE, list |-> <<>>]

\* the truth value of a returned value
result_truthy(r) ==
    CASE r.type = "bool" -> r.bool
      [] r.type = "list" -> r.list # <<>>
      [] OTHER -> FALSE

\* [sublist for sublist in self.required
\*    if isinstance(sublist, list) and attribute in sublist]
choices_of(req, attr) ==
    LET IsChoice(t) == t.is_list /\ attr \in Range(t.items)
    IN  SelectSeq(req, IsChoice)

\* attribute in self.required: equal to one of the string terms
in_required(req, attr) ==
    \E i \in 1..Len(req) : ~req[i].is_list /\ req[i].name = attr

\* a variant: looks only at the first sublist that names the attribute
requires_first_choice(req, attr, opts) ==
    LET choices == choices_of(req, attr)
    IN  IF opts.supplied
        THEN IF in_required(req, attr)
             THEN PyBool(~truthy(opts.values[attr]))
             ELSE IF choices # <<>>
                  THEN IF \E j \in 1..Len(choices[1].items) :
                            truthy(opts.values[choices[1].items[j]])
                       THEN PyBool(FALSE)
                       ELSE PyBool(TRUE)
                  ELSE PyNoneResult
        ELSE IF in_required(req, attr)
             THEN PyBool(TRUE)
             ELSE PyList([i \in 1..Len(choices) |-> choices[i].items])

requires(req, attr, opts) ==
    LET choices == choices_of(req, attr)
    IN  IF opts.supplied
        THEN IF in_required(req, attr)
             THEN PyBool(~truthy(opts.values[attr]))
             ELSE IF choices # <<>>
                  THEN IF \E i \in 1..Len(choices) :
                            \E j \in 1..Len(choices[i].items) :
                               truthy(opts.values[choices[i].items[j]])
                       THEN PyBool(FALSE)
                       ELSE PyBool(TRUE)
                  ELSE PyNoneResult
        ELSE IF in_required(req, attr)
             THEN PyBool(TRUE)
             ELSE PyList([i \in 1..Len(choices) |-> choices[i].items])

IdleTask ==
    /\ required = <<>>
    /\ options = NoOptions
    /\ attribute = ""
    /\ requires_result = PyNoneResult

-----------------------------------------------------------------------------
(* BaseServiceCL.get_entries: values *)

\* an entry: an identity and its title.text (<<>>: None or '', both falsy)
Entries == { [id |-> 1, title |-> <<"a", "b">>], [id |-> 2, title |-> <<>>] }

\* the title argument: absent, or a pattern without metacharacters
TitleInputs == { <<>>, <<"a">>, <<"a", "b">> }

\* what the server answers to the request for locator l: a feed of entries
\* with a next link to locator l + 1 (0: no next link), no feed at all, or
\* a RequestError.  The locator of the first page is 1: it stands for the
\* uri that set_max_results returned.
Responses(l) ==
    { [kind |-> "page", entry |-> es, next |-> n] :
        es \in SeqsUpTo(Entries, MaxPageLen),
        n \in {0} \cup (IF l < MaxPages THEN {l + 1} ELSE {}) }
    \cup { [kind |-> "none", entry |-> <<>>, next |-> 0],
           [kind |-> "error", entry |-> <<>>, next |-> 0] }

\* feed is None
NoFeed == [kind |-> "none", entry |-> <<>>, next |-> 0]

IdleFeed ==
    /\ cap_results = FALSE
    /\ title = <<>>
    /\ use_regex = FALSE
    /\ feed = NoFeed
    /\ all_entries = <<>>
    /\ warned = FALSE
    /\ printed = FALSE
    /\ outcome = ""
    /\ result = <<>>
    /\ fetched = <<>>
    /\ served = <<>>

-----------------------------------------------------------------------------
(* BaseServiceCL.get_single_entry: values *)

\* the value returned: None, or an entry
NoEntry == [id |-> 0, title |-> <<>>]
PyNoneEntry == [is_none |-> TRUE, entry |-> NoEntry]
AnEntry(e) == [is_none |-> FALSE, entry |-> e]

EntryLists == SeqsUpTo(Entries, MaxListLen)

\* the argument uri_or_entry_list: a list of entries; a uri (a string, ''
\* when not truthy) together with the list GetEntries returns for it; or a
\* value of another type
SelectArgs ==
    { [kind |-> "list", truthy |-> l # <<>>, entries |-> l] :
        l \in EntryLists }
    \cup { [kind |-> "uri", truthy |-> TRUE, entries |-> l] :
             l \in EntryLists }
    \cup { [kind |-> "uri", truthy |-> FALSE, entries |-> <<>>] }
    \cup { [kind |-> "other", truthy |-> t, entries |-> <<>>] :
             t \in BOOLEAN }

\* what the user may type at the prompt
AnswerAlphabet == {"0", "1", "2", "-", "x"}
Answers == SeqsUpTo(AnswerAlphabet, MaxAnswerLen)

Digits == {"0", "1", "2", "3", "4", "5", "6", "7", "8", "9"}

digit_value(c) ==
    CASE c = "0" -> 0 [] c = "1" -> 1 [] c = "2" -> 2 [] c = "3" -> 3
      [] c = "4" -> 4 [] c = "5" -> 5 [] c = "6" -> 6 [] c = "7" -> 7
      [] c = "8" -> 8 [] c = "9" -> 9

\* the value of a string of digits
RECURSIVE digits_value(_)
digits_value(s) ==
    IF s = <<>> THEN 0
    ELSE 10 * digits_value(SubSeq(s, 1, Len(s) - 1)) + digit_value(s[Len(s)])

\* int(s): an optional sign and at least one digit, ValueError otherwise
int(s) ==
    LET negative == s # <<>> /\ s[1] = "-"
        body == IF negative THEN Tail(s) ELSE s
    IN  IF body = <<>> \/ \E i \in 1..Len(body) : body[i] \notin Digits
        THEN [raised |-> "ValueError", value |-> 0]
        ELSE [raised |-> "",
              value |-> IF negative THEN 0 - digits_value(body)
                        ELSE digits_value(body)]

IdleSelect ==
    /\ sel_arg = [kind |-> "list", truthy |-> FALSE, entries |-> <<>>]
    /\ sel_entries = <<>>
    /\ listed = <<>>
    /\ selection = 0
    /\ answer = <<>>
    /\ prompts = 0
    /\ sel_outcome = ""
    /\ sel_result = PyNoneEntry

-----------------------------------------------------------------------------
(* BaseServiceCL.delete: values *)

DeleteLists == SeqsUpTo(Entries, MaxDeleteLen)

\* what the user may type when asked to confirm: nothing, y, Y, n, yes
DeleteAnswers ==
    { <<>>, <<"y">>, <<"Y">>, <<"n">>, <<"y", "e", "s">> }

\* how a Delete request may end: it succeeds, or raises RequestError
DeleteResponses == {"ok", "RequestError"}

\* str.lower(), on the characters an answer may hold
lower(s) == [i \in 1..Len(s) |-> IF s[i] = "Y" THEN "y" ELSE s[i]]

IdleDelete ==
    /\ del_entries = <<>>
    /\ prompt_for_delete = FALSE
    /\ delete_default = FALSE
    /\ del_index = 0
    /\ del_answers = <<>>
    /\ del_requests = <<>>
    /\ del_printed = <<>>

-----------------------------------------------------------------------------
(* The calls of the pure functions. *)

InitTags ==
    /\ pc = "call"
    /\ tags \in TagInputs
    /\ tag_result = NoTagResult
    /\ IdleUri /\ IdleTask /\ IdleFeed /\ IdleSelect /\ IdleDelete

CallGenerateTagSets ==
    /\ pc = "call"
    /\ tag_result' = generate_tag_sets(tags)
    /\ pc' = "done"
    /\ UNCHANGED <<tags, uriVars, taskVars, feedVars, selVars, delVars>>

NextTags == CallGenerateTagSets

SpecTags == InitTags /\ [][NextTags]_vars

InitUri ==
    /\ pc = "call"
    /\ uri \in UriInputs
    /\ max \in MaxInputs
    /\ uri_result = <<>>
    /\ IdleTags /\ IdleTask /\ IdleFeed /\ IdleSelect /\ IdleDelete

CallSetMaxResults ==
    /\ pc = "call"
    /\ uri_result' = set_max_results(uri, max)
    /\ pc' = "done"
    /\ UNCHANGED <<uri, max, tagVars, taskVars, feedVars, selVars, delVars>>

NextUri == CallSetMaxResults

SpecUri == InitUri /\ [][NextUri]_vars

InitTask ==
    /\ pc = "call"
    /\ required \in RequiredLists
    /\ options \in OptionObjects \cup {NoOptions}
    /\ attribute = ""
    /\ requires_result = PyNoneResult
    /\ IdleTags /\ IdleUri /\ IdleFeed /\ IdleSelect /\ IdleDelete

CallRequires ==
    /\ pc = "call"
    /\ \E attr \in Attrs :
         /\ attribute' = attr
         /\ requires_result' = requires(required, attr, options)
    /\ pc' = "done"
    /\ UNCHANGED <<required, options, tagVars, uriVars, feedVars, selVars,
                   delVars>>

NextTask == CallRequires

SpecTask == InitTask /\ [][NextTask]_vars


-----------------------------------------------------------------------------
(* BaseServiceCL.get_entries *)

\* re.match(title, text) for a pattern without metacharacters
re_match(pattern, text) == Upto(text, Len(pattern)) = pattern

\* the entries returned for a title
filter_by_title(entries, t, regex) ==
    LET Keep(e) == IF regex
                   THEN e.title # <<>> /\ re_match(t, e.title)
                   ELSE t = e.title
    IN  IF t = <<>> THEN entries ELSE SelectSeq(entries, Keep)

\* a variant: the first request's error is not caught
on_first_error_propagate ==
    [outcome |-> "RequestError", printed |-> FALSE, result |-> <<>>]

\* except gdata.service.RequestError: print ...; return []
on_first_error ==
    [outcome |-> "returned", printed |-> TRUE, result |-> <<>>]

\* a variant: cap_results is not consulted
after_first_page_uncapped(f, cap) ==
    IF f.next # 0
    THEN [pc |-> "loop", warned |-> FALSE]
    ELSE [pc |-> "return", warned |-> FALSE]

\* where the call goes once the first page is in hand
after_first_page(f, cap) ==
    IF f.next # 0
    THEN IF cap
         THEN [pc |-> "return", warned |-> TRUE]
         ELSE [pc |-> "loop", warned |-> FALSE]
    ELSE [pc |-> "return", warned |-> FALSE]

\* while feed and feed.GetNextLink()
loop_condition(f) == f.kind = "page" /\ f.next # 0

\* a variant: entries already collected are not added again
extend_dedup(entries, more) ==
    LET IsNew(e) == e \notin Range(entries)
    IN  entries \o SelectSeq(more, IsNew)

\* all_entries.extend(feed.entry)
extend(entries, more) == entries \o more

\* a variant: an error of GetNext is taken for the end of the feed
after_next_swallow(r, f, entries) ==
    CASE r.kind \in {"error", "none"} ->
           [pc |-> "loop", outcome |-> "", feed |-> NoFeed,
            all_entries |-> entries]
      [] OTHER ->
           [pc |-> "loop", outcome |-> "", feed |-> r,
            all_entries |-> extend(entries, r.entry)]

\* one pass of the loop body, given the server's answer r: GetNext raises
\* (nothing catches it), returns no feed, or returns the next feed
after_next(r, f, entries) ==
    CASE r.kind = "error" ->
           [pc |-> "done", outcome |-> "RequestError", feed |-> f,
            all_entries |-> entries]
      [] r.kind = "none" ->
           [pc |-> "loop", outcome |-> "", feed |-> NoFeed,
            all_entries |-> entries]
      [] OTHER ->
           [pc |-> "loop", outcome |-> "", feed |-> r,
            all_entries |-> extend(entries, r.entry)]

InitFeed ==
    /\ pc = "start"
    /\ cap_results \in BOOLEAN
    /\ title \in TitleInputs
    /\ use_regex \in BOOLEAN
    /\ feed = NoFeed
    /\ all_entries = <<>>
    /\ warned = FALSE
    /\ printed = FALSE
    /\ outcome = ""
    /\ result = <<>>
    /\ fetched = <<>>
    /\ served = <<>>
    /\ IdleTags /\ IdleUri /\ IdleTask /\ IdleSelect /\ IdleDelete

\* the first request and what follows it up to the loop
GetFeed ==
    /\ pc = "start"
    /\ fetched' = <<1>>
    /\ \E r \in Responses(1) :
         /\ served' = <<r>>
         /\ CASE r.kind = "error" ->
                   /\ printed' = on_first_error.printed
                   /\ outcome' = on_first_error.outcome
                   /\ result' = on_first_error.result
                   /\ pc' = "done"
                   /\ UNCHANGED <<feed, all_entries, warned>>
              [] r.kind = "none" ->
                   \* feed.entry of None
                   /\ outcome' = "AttributeError"
                   /\ pc' = "done"
                   /\ UNCHANGED <<feed, all_entries, warned, printed, result>>
              [] OTHER ->
                   /\ feed' = r
                   /\ all_entries' = r.entry
                   /\ warned' = after_first_page(r, cap_results).warned
                   /\ pc' = after_first_page(r, cap_results).pc
                   /\ UNCHANGED <<printed, outcome, result>>
    /\ UNCHANGED <<cap_results, title, use_regex, tagVars, uriVars, taskVars,
                   selVars, delVars>>

\* one pass of the loop: the request for the next page
GetNext ==
    /\ pc = "loop"
    /\ loop_condition(feed)
    /\ fetched' = Append(fetched, feed.next)
    /\ \E r \in Responses(feed.next) :
         /\ served' = Append(served, r)
         /\ LET a == after_next(r, feed, all_entries)
            IN  /\ pc' = a.pc
                /\ outcome' = a.outcome
                /\ feed' = a.feed
                /\ all_entries' = a.all_entries
    /\ UNCHANGED <<cap_results, title, use_regex, warned, printed, result,
                   tagVars, uriVars, taskVars, selVars, delVars>>

\* the loop ends
LoopExit ==
    /\ pc = "loop"
    /\ ~loop_condition(feed)
    /\ pc' = "return"
    /\ UNCHANGED <<tagVars, uriVars, taskVars, feedVars, selVars, delVars>>

\* the return statements
Return ==
    /\ pc = "return"
    /\ result' = filter_by_title(all_entries, title, use_regex)
    /\ outcome' = "returned"
    /\ pc' = "done"
    /\ UNCHANGED <<cap_results, title, use_regex, feed, all_entries, warned,
                   printed, fetched, served, tagVars, uriVars, taskVars,
                   selVars, delVars>>

NextFeed == GetFeed \/ GetNext \/ LoopExit \/ Return

SpecFeed == InitFeed /\ [][NextFeed]_vars


-----------------------------------------------------------------------------
(* BaseServiceCL.get_single_entry *)

\* entries[selection]: the position in the list of a 0-based index
choice_index(n) == n + 1

\* a variant: the last index is taken for out of range
must_prompt_strict(sel, n) == sel < 0 \/ sel >= n - 1

\* while selection < 0 or selection > len(entries)-1
must_prompt(sel, n) == sel < 0 \/ sel > n - 1

InitSelect ==
    /\ pc = "start"
    /\ sel_arg \in SelectArgs
    /\ sel_entries = <<>>
    /\ listed = <<>>
    /\ selection = 0
    /\ answer = <<>>
    /\ prompts = 0
    /\ sel_outcome = ""
    /\ sel_result = PyNoneEntry
    /\ IdleTags /\ IdleUri /\ IdleTask /\ IdleFeed /\ IdleDelete

\* from the call to the first test of the while loop
SelectStart ==
    /\ pc = "start"
    /\ IF ~sel_arg.truthy
       THEN /\ sel_outcome' = "returned"
            /\ sel_result' = PyNoneEntry
            /\ pc' = "done"
            /\ UNCHANGED <<sel_entries, listed, selection>>
       ELSE IF sel_arg.kind = "other"
       THEN /\ sel_outcome' = "Error"
            /\ pc' = "done"
            /\ UNCHANGED <<sel_entries, listed, selection, sel_result>>
       ELSE /\ sel_entries' = sel_arg.entries
            /\ IF Len(sel_arg.entries) = 0
               THEN /\ sel_outcome' = "returned"
                    /\ sel_result' = PyNoneEntry
                    /\ pc' = "done"
                    /\ UNCHANGED <<listed, selection>>
               ELSE IF Len(sel_arg.entries) = 1
               THEN /\ sel_outcome' = "returned"
                    /\ sel_result' = AnEntry(sel_arg.entries[1])
                    /\ pc' = "done"
                    /\ UNCHANGED <<listed, selection>>
               ELSE \* for num, entry in enumerate(entries): print num
                    /\ listed' = [i \in 1..Len(sel_arg.entries) |-> i - 1]
                    /\ selection' = -1
                    /\ pc' = "prompt"
                    /\ UNCHANGED <<sel_outcome, sel_result>>
    /\ UNCHANGED <<sel_arg, answer, prompts, tagVars, uriVars, taskVars,
                   feedVars, delVars>>

\* one pass of the while loop, and the return that follows its last pass
Prompt ==
    /\ pc = "prompt"
    /\ must_prompt(selection, Len(sel_entries))
    /\ prompts < MaxPrompts
    /\ prompts' = prompts + 1
    /\ \E typed \in Answers :
         /\ answer' = typed
         /\ IF int(typed).raised # ""
            THEN /\ sel_outcome' = int(typed).raised
                 /\ pc' = "done"
                 /\ UNCHANGED <<selection, sel_result>>
            ELSE /\ selection' = int(typed).value
                 /\ IF must_prompt(int(typed).value, Len(sel_entries))
                    THEN UNCHANGED <<pc, sel_outcome, sel_result>>
                    ELSE /\ sel_result' =
                              AnEntry(sel_entries[choice_index(int(typed).value)])
                         /\ sel_outcome' = "returned"
                         /\ pc' = "done"
    /\ UNCHANGED <<sel_arg, sel_entries, listed, tagVars, uriVars, taskVars,
                   feedVars, delVars>>

NextSelect == SelectStart \/ Prompt

SpecSelect == InitSelect /\ [][NextSelect]_vars

-----------------------------------------------------------------------------
(* BaseServiceCL.delete *)

\* a variant: an empty answer always means yes
want_delete_empty_yes(typed, default) ==
    IF typed = <<>> THEN TRUE ELSE lower(typed) = <<"y">>

\* if not delete_str: delete = delete_default
\* else: delete = delete_str.lower() == 'y'
want_delete(typed, default) ==
    IF typed = <<>> THEN default ELSE lower(typed) = <<"y">>

InitDelete ==
    /\ pc = "start"
    /\ del_entries \in DeleteLists
    /\ prompt_for_delete \in BOOLEAN
    /\ delete_default \in BOOLEAN
    /\ del_index = 0
    /\ del_answers = <<>>
    /\ del_requests = <<>>
    /\ del_printed = <<>>
    /\ IdleTags /\ IdleUri /\ IdleTask /\ IdleFeed /\ IdleSelect

\* the choice of prompt_str, up to the for statement
DeleteStart ==
    /\ pc = "start"
    /\ pc' = IF del_entries = <<>> THEN "done" ELSE "loop"
    /\ UNCHANGED <<tagVars, uriVars, taskVars, feedVars, selVars, delVars>>

\* one pass of the for loop: its item is del_entries[del_index + 1]
DeleteItem ==
    /\ pc = "loop"
    /\ del_index < Len(del_entries)
    /\ \E typed \in DeleteAnswers, response \in DeleteResponses :
         LET item == del_index + 1
             delete == IF prompt_for_delete
                       THEN want_delete(typed, delete_default)
                       ELSE TRUE
         IN  \* without a prompt nothing is typed; an answer that does not
             \* lead to a request meets no response
             /\ prompt_for_delete \/ typed = <<>>
             /\ delete \/ response = "ok"
             /\ del_answers' = IF prompt_for_delete
                               THEN Append(del_answers, typed)
                               ELSE del_answers
             /\ del_requests' =
                   IF delete
                   THEN Append(del_requests,
                               [item |-> item, entry |-> del_entries[item],
                                response |-> response])
                   ELSE del_requests
             /\ del_printed' =
                   IF delete /\ response = "RequestError"
                   THEN Append(del_printed, item)
                   ELSE del_printed
             /\ del_index' = item
             /\ pc' = IF item = Len(del_entries) THEN "done" ELSE "loop"
    /\ UNCHANGED <<del_entries, prompt_for_delete, delete_default, tagVars,
                   uriVars, taskVars, feedVars, selVars>>

NextDelete == DeleteStart \/ DeleteItem

SpecDelete == InitDelete /\ [][NextDelete]_vars

-----------------------------------------------------------------------------
(* Properties of get_entries, checked under SpecFeed. *)

\* the entries of a sequence of responses, page after page
RECURSIVE concat_entries(_)
concat_entries(pages) ==
    IF pages = <<>> THEN <<>>
    ELSE pages[1].entry \o concat_entries(Tail(pages))

AllPages(s) == \A i \in 1..Len(s) : s[i].kind = "page"

Front(s) == SubSeq(s, 1, Len(s) - 1)

Last(s) == s[Len(s)]

\* C1: without a cap, without a title and with every request answered by a
\* page, the call requests the locators 1, 2, ... once each and in order up
\* to the page without a next link, returns the pages' entries concatenated
\* in that order, and issues no warning.
C1_ConcatenatesAllPages ==
    (pc = "done" /\ ~cap_results /\ title = <<>> /\ AllPages(served)) =>
        /\ outcome = "returned"
        /\ result = concat_entries(served)
        /\ Len(fetched) = Len(served)
        /\ \A i \in 1..Len(fetched) : fetched[i] = i
        /\ Last(served).next = 0
        /\ \A i \in 1..(Len(served) - 1) : served[i].next = i + 1
        /\ ~warned
        /\ ~printed

\* pages of sizes 2, 2, 1 give 5 entries (some of them repeated)
C1_Witness ==
    /\ pc = "done" /\ ~cap_results /\ title = <<>> /\ AllPages(served)
    /\ Len(served) = 3
    /\ Len(served[1].entry) = 2
    /\ Len(served[2].entry) = 2
    /\ Len(served[3].entry) = 1
    /\ Len(result) = 5
    /\ result[1] = result[3]

LaterFailure == Len(served) > 1 /\ Last(served).kind = "error"

LaterNoFeed == Len(served) > 1 /\ Last(served).kind = "none"

\* C2 as claimed: when the request for a second or later page fails, the
\* call returns the entries of the pages before it and raises nothing.
C2_LaterFailureReturnsPartial ==
    (pc = "done" /\ LaterFailure) =>
        /\ outcome = "returned"
        /\ title = <<>> => result = concat_entries(Front(served))

\* C2 amended: when the request for a second or later page fails with a
\* RequestError, the error leaves get_entries and nothing is returned or
\* printed; when such a request yields no feed, the loop ends, no further
\* request is made and the entries of the pages before it are returned.
C2_LaterFailurePropagates ==
    pc = "done" =>
        /\ LaterFailure =>
              /\ outcome = "RequestError"
              /\ result = <<>>
              /\ ~printed
        /\ LaterNoFeed =>
              /\ outcome = "returned"
              /\ Len(fetched) = Len(served)
              /\ title = <<>> => result = concat_entries(Front(served))

C2_Witness ==
    /\ pc = "done"
    /\ LaterFailure
    /\ outcome = "RequestError"
    /\ Len(all_entries) > 0

\* C3: when the first request fails with a RequestError, the failure is
\* printed, the call returns the empty list, raises nothing, and has made
\* no other request.
C3_FirstFailureReturnsEmpty ==
    (pc = "done" /\ served[1].kind = "error") =>
        /\ printed
        /\ outcome = "returned"
        /\ result = <<>>
        /\ fetched = <<1>>
        /\ Len(served) = 1
        /\ all_entries = <<>>

C3_Witness ==
    /\ pc = "done"
    /\ served[1].kind = "error"
    /\ printed
    /\ result = <<>>

\* C4: with cap_results set, no request follows the first; when the first
\* request yields a page the call returns that page's entries (those that
\* match, when a title is given), and the LeftoverData warning is issued
\* exactly when that page has a next link.
C4_CapStopsAfterFirstPage ==
    cap_results =>
        /\ Len(fetched) <= 1
        /\ (pc = "done" /\ served[1].kind = "page") =>
              /\ outcome = "returned"
              /\ title = <<>> => result = served[1].entry
              /\ \A i \in 1..Len(result) :
                    \E j \in 1..Len(served[1].entry) :
                       result[i] = served[1].entry[j]
              /\ warned <=> served[1].next # 0

C4_Witness ==
    /\ pc = "done"
    /\ cap_results
    /\ served[1].kind = "page"
    /\ served[1].next # 0
    /\ warned
    /\ Len(result) = 2

-----------------------------------------------------------------------------
(* Properties of Task.requires, checked under SpecTask. *)

\* C5: with options supplied, requires is true exactly when the attribute
\* is a bare required term without a truthy value, or is named by at least
\* one sublist and no member of any sublist naming it has a truthy value;
\* it is not true when the attribute is in neither form.
C5_RequiresStillNeeded ==
    (pc = "done" /\ options.supplied) =>
        LET lacks(a) == options.values[a] \in {PyNone, ""}
            bare == \E i \in 1..Len(required) : required[i] = Bare(attribute)
            groups == {i \in 1..Len(required) :
                         /\ required[i].is_list
                         /\ \E j \in 1..Len(required[i].items) :
                               required[i].items[j] = attribute}
            unmet == \A i \in groups :
                        \A j \in 1..Len(required[i].items) :
                           lacks(required[i].items[j])
        IN  /\ result_truthy(requires_result) <=>
                  \/ bare /\ lacks(attribute)
                  \/ groups # {} /\ unmet
            /\ (~bare /\ groups = {}) => ~result_truthy(requires_result)

\* an attribute of two sublists, none of whose members is supplied
C5_Witness ==
    /\ pc = "done"
    /\ options.supplied
    /\ Cardinality({i \in 1..Len(required) :
                       required[i].is_list
                       /\ attribute \in Range(required[i].items)}) >= 2
    /\ ~in_required(required, attribute)
    /\ requires_result = PyBool(TRUE)

\* every attribute named in Task.required, bare or in a sublist
named_in(req) ==
    {req[i].name : i \in {k \in 1..Len(req) : ~req[k].is_list}}
    \cup UNION {Range(req[i].items) : i \in {k \in 1..Len(req) : req[k].is_list}}

\* C13: when requires is not true for any attribute named in the required
\* list (the one just asked about among them), every bare term has a
\* truthy value and every sublist has a member with a truthy value.
C13_ValidationSound ==
    (/\ pc = "done"
     /\ options.supplied
     /\ attribute \in named_in(required)
     /\ ~result_truthy(requires_result)
     /\ \A a \in named_in(required) :
           ~result_truthy(requires(required, a, options))) =>
        \A i \in 1..Len(required) :
           IF required[i].is_list
           THEN \E j \in 1..Len(required[i].items) :
                   truthy(options.values[required[i].items[j]])
           ELSE truthy(options.values[required[i].name])

-----------------------------------------------------------------------------
(* Properties of set_max_results, checked under SpecUri. *)

contains(s, sub) ==
    \E i \in 1..(Len(s) - Len(sub) + 1) : SubSeq(s, i, i + Len(sub) - 1) = sub

Decimal(n) ==
    CASE n = 1 -> <<"1">>
      [] n = 50 -> <<"5", "0">>
      [] n = 10000 -> <<"1", "0", "0", "0", "0">>

MaxResultsIs(n) ==
    <<"m", "a", "x", "-", "r", "e", "s", "u", "l", "t", "s", "=">>
    \o Decimal(n)

\* C6: the result is uri + '?max-results=n' when uri has no '?',
\* uri + '&max-results=n' when it has a '?' but not the substring
\* 'max-results', and uri itself when it has both.
C6_SetMaxResults ==
    pc = "done" =>
        LET query == contains(uri, <<"?">>)
            named == contains(uri, <<"m", "a", "x", "-", "r", "e", "s", "u",
                                     "l", "t", "s">>)
        IN  /\ ~query => uri_result = uri \o <<"?">> \o MaxResultsIs(max)
            /\ (query /\ ~named) =>
                  uri_result = uri \o <<"&">> \o MaxResultsIs(max)
            /\ (query /\ named) => uri_result = uri

\* a uri that already carries max-results=10 is returned as it is
C6_Witness ==
    /\ pc = "done"
    /\ uri = <<"x", "?">> \o MaxResultsIs(1) \o <<"0">>
    /\ max = 50
    /\ uri_result = uri

-----------------------------------------------------------------------------
(* Properties of generate_tag_sets, checked under SpecTags. *)

Marker == <<"-", "-">>

MarkerExample == <<"-", "-", ",", " ", "t", "a", "g", "6">>

EscapeExample == <<"\\", "-", "t", "a", "g", "5">>

Returned == pc = "done" /\ tag_result.raised = ""

\* C7 as claimed: the replace-all marker sets replace_tags and leaves no
\* member in the remove set or in the add set; '--, tag6' gives
\* add = {tag6}, remove = {}, replace_tags = TRUE.
C7_MarkerLeavesNoMember ==
    /\ (Returned /\ Marker \in tagset_of(tags)) =>
          /\ tag_result.replace_tags
          /\ <<"-">> \notin tag_result.remove_set
          /\ tag_result.add_set \cap {Marker, <<"-">>} = {}
    /\ (pc = "done" /\ tags = MarkerExample) =>
          tag_result = [raised |-> "", remove_set |-> {},
                        add_set |-> {<<"t", "a", "g", "6">>},
                        replace_tags |-> TRUE]

\* C7 amended: the token '--' sets replace_tags, leaves no member in the
\* add set and leaves its remainder '-' in the remove set; replace_tags is
\* set by no other token; '--, tag6' gives add = {tag6}, remove = {'-'},
\* replace_tags = TRUE.
C7_MarkerStaysInRemoveSet ==
    /\ Returned =>
          /\ tag_result.replace_tags <=> Marker \in tagset_of(tags)
          /\ tag_result.replace_tags <=> <<"-">> \in tag_result.remove_set
          /\ tag_result.add_set \cap {Marker, <<"-">>} = {}
    /\ (pc = "done" /\ tags = MarkerExample) =>
          tag_result = [raised |-> "", remove_set |-> {<<"-">>},
                        add_set |-> {<<"t", "a", "g", "6">>},
                        replace_tags |-> TRUE]

C7_Witness ==
    /\ pc = "done"
    /\ tags = MarkerExample
    /\ tag_result.replace_tags
    /\ tag_result.add_set = {<<"t", "a", "g", "6">>}

\* C8: a token that starts with backslash, hyphen goes to the add set
\* without its backslash and adds nothing to the remove set; '\-tag5'
\* gives add = {'-tag5'}, remove = {}, replace_tags = FALSE.
C8_EscapeKeepsHyphen ==
    /\ Returned =>
          \A t \in tagset_of(tags) :
             Upto(t, 2) = <<"\\", "-">> =>
                /\ From(t, 1) \in tag_result.add_set
                /\ t \notin tag_result.add_set
                /\ From(t, 1) \notin tag_result.remove_set
    /\ (pc = "done" /\ tags = EscapeExample) =>
          tag_result = [raised |-> "", remove_set |-> {},
                        add_set |-> {<<"-", "t", "a", "g", "5">>},
                        replace_tags |-> FALSE]

\* C9: the remove set and the add set have no member in common.
C9_SetsDisjoint ==
    pc = "done" => tag_result.remove_set \cap tag_result.add_set = {}

\* C10: every input gives a result and none raises; the empty input gives
\* two empty sets and replace_tags = FALSE; an empty token becomes an
\* empty-string member of one of the sets.
C10_NoRejectPath ==
    pc = "done" =>
        /\ tag_result.raised = ""
        /\ tags = <<>> => tag_result = NoTagResult
        /\ <<>> \in tagset_of(tags) =>
              <<>> \in tag_result.remove_set \cup tag_result.add_set


\* the strings of l joined with sep
RECURSIVE join(_, _)
join(l, sep) ==
    IF l = <<>> THEN <<>>
    ELSE IF Len(l) = 1 THEN l[1]
    ELSE l[1] \o sep \o join(Tail(l), sep)

\* the tokens that write a result down: the add set's members, and the
\* remove set's members with '-' in front
serial_tokens(r) == r.add_set \cup {<<"-">> \o t : t \in r.remove_set}

\* every string that joins those tokens with commas, in any order
serializations(r) ==
    LET toks == serial_tokens(r)
        n == Cardinality(toks)
        orders == {f \in [1..n -> toks] :
                      \A i, j \in 1..n : f[i] = f[j] => i = j}
    IN  {join(f, <<",">>) : f \in orders}

SpaceLed(r) == \E t \in r.add_set : t # <<>> /\ t[1] = " "

\* C11 as claimed: parsing any re-serialization of the result of an
\* accepted input gives the same remove set, add set and replace_tags.
C11_ReparseIsEqual ==
    Returned =>
        \A again \in serializations(tag_result) :
           generate_tag_sets(again) = tag_result

\* C11 amended: the same, for accepted inputs whose result has no add-set
\* member that begins with a space (', ' is normalised to ',' before the
\* split, so such a member loses its space, or vanishes, when parsed again).
C11_ReparseIsEqualUnlessSpaceLed ==
    (Returned /\ ~SpaceLed(tag_result)) =>
        \A again \in serializations(tag_result) :
           generate_tag_sets(again) = tag_result

\* a result with members in both sets, written in two orders
C11_Witness ==
    /\ Returned
    /\ ~SpaceLed(tag_result)
    /\ tag_result.add_set # {}
    /\ tag_result.remove_set # {}
    /\ Cardinality(serializations(tag_result)) >= 2
    /\ \A again \in serializations(tag_result) :
          generate_tag_sets(again) = tag_result


-----------------------------------------------------------------------------
(* Properties of get_single_entry, checked under SpecSelect. *)

Several == Len(sel_entries) > 1

Typed == int(answer)

\* what holds of the call whatever the numbering of the choices
SelectNoneOrSole ==
    (pc = "done" /\ sel_outcome = "returned") =>
        /\ (~sel_arg.truthy \/ sel_arg.entries = <<>>) =>
              sel_result = PyNoneEntry
        /\ (sel_arg.truthy /\ Len(sel_arg.entries) = 1) =>
              /\ sel_result = AnEntry(sel_arg.entries[1])
              /\ prompts = 0

\* C12 as claimed: None for no entries, the sole entry for one; for
\* several, the choice is a number counted from 1: the call prompts again
\* after every value outside 1..len, and returns, once a value in 1..len is
\* typed, the entry at that place of the list.
C12_ChoiceCountedFromOne ==
    /\ SelectNoneOrSole
    /\ (Several /\ prompts > 0 /\ Typed.raised = "") =>
          /\ Typed.value \notin 1..Len(sel_entries) => pc = "prompt"
          /\ Typed.value \in 1..Len(sel_entries) =>
                /\ pc = "done"
                /\ sel_outcome = "returned"
                /\ sel_result = AnEntry(sel_entries[Typed.value])

\* C12 amended: the same with the choice counted from 0, as the entries
\* are listed: the call prompts again after every value outside
\* 0..len-1, however often, and returns, once a value in 0..len-1 is
\* typed, the entry listed with that number.
C12_ChoiceCountedFromZero ==
    /\ SelectNoneOrSole
    /\ (Several /\ prompts > 0 /\ Typed.raised = "") =>
          /\ Typed.value \notin 0..(Len(sel_entries) - 1) => pc = "prompt"
          /\ Typed.value \in 0..(Len(sel_entries) - 1) =>
                /\ pc = "done"
                /\ sel_outcome = "returned"
                /\ \E i \in 1..Len(sel_entries) :
                      /\ listed[i] = Typed.value
                      /\ sel_result = AnEntry(sel_entries[i])
    /\ (Several /\ pc = "done" /\ sel_outcome = "returned") =>
          /\ prompts > 0
          /\ Typed.raised = ""
          /\ selection = Typed.value
          /\ selection \in 0..(Len(sel_entries) - 1)

\* the last entry of a list of distinct entries, chosen at the last prompt
\* the model allows, after values that were out of range
C12_Witness ==
    /\ pc = "done"
    /\ sel_outcome = "returned"
    /\ Several
    /\ prompts = MaxPrompts
    /\ selection = Len(sel_entries) - 1
    /\ sel_entries[1] # sel_entries[Len(sel_entries)]
    /\ sel_result = AnEntry(sel_entries[Len(sel_entries)])


-----------------------------------------------------------------------------
(* Properties of delete, checked under SpecDelete. *)

\* the answer says yes: y or Y, or nothing when the default is to delete
SaysYes(typed) ==
    \/ typed \in {<<"y">>, <<"Y">>}
    \/ typed = <<>> /\ delete_default

\* C14: with prompt_for_delete, a Delete request is made for an item only
\* when the answer to that item's own prompt says yes; the requests follow
\* the order of the list, at most one for an item; and every item is gone
\* through, whatever requests failed before it.
C14_DeleteOnlyOnYes ==
    prompt_for_delete =>
        /\ Len(del_answers) = del_index
        /\ \A k \in 1..Len(del_requests) :
              /\ del_requests[k].item \in 1..del_index
              /\ SaysYes(del_answers[del_requests[k].item])
              /\ del_requests[k].entry = del_entries[del_requests[k].item]
        /\ \A j, k \in 1..Len(del_requests) :
              j < k => del_requests[j].item < del_requests[k].item
        /\ pc = "loop" => del_index < Len(del_entries)
        /\ pc = "done" => del_index = Len(del_entries)
        /\ \A k \in 1..Len(del_requests) :
              (del_requests[k].response = "RequestError"
               /\ del_requests[k].item < Len(del_entries)) =>
                 \/ pc = "loop"
                 \/ del_index > del_requests[k].item

\* three items: the first request fails, the second item is declined, the
\* third is still asked about and deleted
C14_Witness ==
    /\ pc = "done"
    /\ prompt_for_delete
    /\ Len(del_entries) = 3
    /\ Len(del_requests) = 2
    /\ del_requests[1].item = 1
    /\ del_requests[1].response = "RequestError"
    /\ del_requests[2].item = 3
    /\ ~SaysYes(del_answers[2])
    /\ del_printed = <<1>>

=============================================================================
